---- MODULE Spec2Model ----
(***************************************************************************)
(* Model of app.py: the /flexibaffle_drawings handler and generate_drawing *)
(* (field parsing, placement classification, clamps, baffle layout and the *)
(* baffle segments of the longitudinal and plan views).                    *)
(*                                                                         *)
(* Numbers.  A Python float is a record [nan, v]: nan is TRUE for the IEEE *)
(* NaN, otherwise the decimal value is v / Scale (v an integer).  The      *)
(* binary rounding of a double is not stored; where the code's result      *)
(* depends on it (the floor division of line 76) it is recomputed from the *)
(* decimal value by RoundSign.  Longitudinal y-coordinates are integers    *)
(* over Scale * Scale so that x * gradient is exact.                       *)
(*                                                                         *)
(* Text.  A field value is a sequence of lexemes: a decimal literal        *)
(* [lex |-> "num", t |-> value * 10] or a piece of text [lex |-> s].       *)
(***************************************************************************)
EXTENDS Integers, Sequences, FiniteSets, TLC

\* ---- bounds of the model ------------------------------------------------
MaxKeys == 3
MaxLengthM == 2

\* ---- fixed-point scale of the model's numbers ---------------------------
Scale == 10 * 1000

\* ---- lexemes and texts --------------------------------------------------
Num(t) == [lex |-> "num", t |-> t]
W(s) == [lex |-> s, t |-> 0]

Keys == {"culvertLength", "Culvert Length", "length", "diameter", "gradient",
         "baffleHeight", "baffleLength", "spacing", "shape", "installation"}

\* The values a request may carry under each key.
Opts(k) ==
  CASE k = "culvertLength" -> << <<Num(200), W(" m")>>, <<Num(40), W(" m")>> >>
    [] k = "Culvert Length" -> << <<Num(30), W(" m")>> >>
    [] k = "length" -> [i \in 1..(MaxLengthM + 1) |-> <<Num(10 * (i - 1)), W(" m")>>]
                       \o << <<W("abc")>>, <<Num(200), W(" mm")>> >>
    [] k = "diameter" -> << <<Num(4500), W(" mm")>>, <<Num(6000), W(" mm")>>,
                            <<Num(0), W(" mm")>>, <<Num(12000)>>, <<W("big")>>,
                            <<W("NaN"), W(" mm")>> >>
    [] k = "gradient" -> << <<Num(20), W("%")>>, <<Num(125), W("%")>>,
                            <<W("greater than "), Num(50), W("%")>>,
                            <<W("NaN"), W("%")>>, <<W("garbage")>>, << >> >>
    [] k = "baffleHeight" -> << <<Num(2000), W(" mm")>>, <<Num(-100), W(" mm")>>,
                                <<W("tall")>> >>
    [] k = "baffleLength" -> << <<Num(3000), W(" mm")>>, <<Num(-100), W(" mm")>>,
                                <<Num(9000), W(" mm")>> >>
    [] k = "spacing" -> << <<Num(5000), W(" mm")>>, <<Num(100), W(" mm")>>,
                           <<Num(2500), W(" mm")>>, <<Num(8), W(" m")>> >>
    [] k = "shape" -> << <<W("flat")>>, <<W("Flat")>>, <<W("box")>>, <<W("round")>> >>
    [] k = "installation" -> << <<W("offset")>>, <<W("Alternating")>>, <<W("centered")>>,
                                <<W("zigzag")>>, <<W("meander")>>,
                                <<W("20% shorter")>>, <<W("Offset"), W(" left")>> >>

\* ---- Python built-ins used by the code ----------------------------------
\* dict.get(key, default)
Get(d, k, default) == IF k \in DOMAIN d THEN d[k] ELSE default

\* str.replace(old, ""): every occurrence of old is removed.  " m" also
\* occurs inside " mm", where its removal leaves "m".
Replace(s, old) ==
  LET kept == SelectSeq(s, LAMBDA e : e.lex # old)
  IN  [i \in 1..Len(kept) |->
         IF old = " m" /\ kept[i].lex = " mm" THEN W("m") ELSE kept[i]]

\* str.lower() on one lexeme
LowerLex(e) ==
  CASE e.lex = "Flat" -> W("flat")
    [] e.lex = "Alternating" -> W("alternating")
    [] e.lex = "Offset" -> W("offset")
    [] e.lex = "NaN" -> W("nan")
    [] OTHER -> e
Lower(s) == [i \in 1..Len(s) |-> LowerLex(s[i])]

\* sub in text
Contains(s, sub) == \E i \in 1..Len(s) : s[i].lex = sub

NaN == [nan |-> TRUE, v |-> 0]
Fl(v) == [nan |-> FALSE, v |-> v]

\* float(text): ok is FALSE where Python raises ValueError.
Float(s) ==
  IF Len(s) = 1 /\ s[1].lex = "num"
    THEN [ok |-> TRUE, val |-> Fl(s[1].t * (Scale \div 10))]
  ELSE IF Len(s) = 1 /\ LowerLex(s[1]).lex = "nan"
    THEN [ok |-> TRUE, val |-> NaN]
  ELSE [ok |-> FALSE, val |-> NaN]

\* max(a, b) of two floats: b only if b > a, and NaN > a is False.
PyMax(a, b) == IF (~a.nan) /\ (~b.nan) /\ b.v > a.v THEN b ELSE a

mm_to_m(f) == IF f.nan THEN NaN ELSE Fl(f.v \div 1000)

\* ---- binary64 rounding --------------------------------------------------
RECURSIVE PowMod(_, _)
\* 2^k modulo m
PowMod(k, m) == IF k = 0 THEN 1 % m ELSE (2 * PowMod(k - 1, m)) % m

RECURSIVE ShiftUp(_, _, _)
\* the least j >= 0 with n * 2^j >= d
ShiftUp(n, d, j) == IF n >= d THEN j ELSE ShiftUp(2 * n, d, j + 1)

RECURSIVE ShiftDown(_, _, _)
\* the greatest j >= 0 with d * 2^j <= n   (for n >= d)
ShiftDown(n, d, j) == IF 2 * d > n THEN j ELSE ShiftDown(n, 2 * d, j + 1)

\* The sign of (the double nearest to v / Scale) - v / Scale, for v > 0:
\* the 53-bit significand is M = floor(v * 2^k / Scale) with rest r, rounded
\* to nearest, ties to even.  v * 2^k is reduced modulo 2 * Scale, which keeps
\* r and the parity of M.
RoundSign(v) ==
  LET k == IF v >= Scale THEN 52 - ShiftDown(v, Scale, 0)
                         ELSE 52 + ShiftUp(v, Scale, 0)
      w == (v * PowMod(k, 2 * Scale)) % (2 * Scale)
      r == w % Scale
      odd == w >= Scale
  IN  IF r = 0 THEN 0
      ELSE IF 2 * r > Scale \/ (2 * r = Scale /\ odd) THEN 1
      ELSE -1

\* a // b on floats, a >= 0 and b > 0, a / Scale a double without rounding
\* error: the exact floor of the quotient of the two doubles.
FloorDiv(a, b) ==
  IF a % b = 0 /\ RoundSign(b) > 0 THEN (a \div b) - 1 ELSE a \div b

\* ---- generate_drawing: inputs and defaults ------------------------------
LengthText(d) ==
  Replace(Get(d, "culvertLength",
              Get(d, "Culvert Length", Get(d, "length", <<Num(100)>>))), " m")
DiameterText(d) == Replace(Get(d, "diameter", <<Num(12000), W(" mm")>>), " mm")
GradientText(d) == Replace(Get(d, "gradient", <<Num(0), W("%")>>), "%")
BaffleHText(d) == Replace(Get(d, "baffleHeight", <<Num(1500), W(" mm")>>), " mm")
BaffleLenText(d) == Replace(Get(d, "baffleLength", <<Num(6000), W(" mm")>>), " mm")
SpacingText(d) == Replace(Get(d, "spacing", <<Num(8000), W(" mm")>>), " mm")

\* every float(...) of lines 20-38 succeeds
ParseOk(d) ==
  /\ Float(LengthText(d)).ok
  /\ Float(DiameterText(d)).ok
  /\ Float(GradientText(d)).ok
  /\ Float(BaffleHText(d)).ok
  /\ Float(BaffleLenText(d)).ok
  /\ Float(SpacingText(d)).ok

ParsedLength(d) == Float(LengthText(d)).val
ParsedDiameter(d) == mm_to_m(Float(DiameterText(d)).val)
ParsedGradient(d) ==
  LET g == Float(GradientText(d)).val
  IN  IF g.nan THEN NaN ELSE Fl(g.v \div 100)
ParsedBaffleH(d) == mm_to_m(Float(BaffleHText(d)).val)
ParsedBaffleLen(d) == mm_to_m(Float(BaffleLenText(d)).val)
ParsedSpacing(d) == mm_to_m(Float(SpacingText(d)).val)

ShapeOf(d) ==
  IF Lower(Get(d, "shape", <<W("round")>>)) = <<W("flat")>> THEN "box" ELSE "round"

Installation(d) == Lower(Get(d, "installation", << >>))

PlacementOf(installation) ==
  IF Contains(installation, "offset") THEN "offset" ELSE "centered"

\* a slip: the 50 mm offset applied to box culverts too
LateralOffset_AnyShape(pl, sh) ==
  IF pl = "offset" THEN Scale \div 20 ELSE 0

LateralOffset(pl, sh) ==
  IF pl = "offset" /\ sh = "round" THEN Scale \div 20 ELSE 0

\* Safety clamps
ClampLength(f) == PyMax(Fl(Scale \div 2), f)
ClampSpacing(f) == PyMax(Fl(Scale \div 20), f)
ClampBaffleH(f) == PyMax(Fl(0), f)
ClampBaffleLen(f) == PyMax(Fl(0), f)

\* ---- baffle x-positions -------------------------------------------------
NBaffles(len, sp) == FloorDiv(len, sp)

XPositions(len, sp) ==
  LET n == NBaffles(len, sp)
      all == [i \in 1..n |-> i * sp]
  IN  SelectSeq(all, LAMBDA x : x <= len)

\* ---- drawing ------------------------------------------------------------
\* int(round(v * 1000)) of a length in metres: round half to even
RoundMm(v) ==
  LET q == v \div (Scale \div 1000)
      r == v % (Scale \div 1000)
      h == Scale \div 1000
  IN  IF 2 * r > h \/ (2 * r = h /\ q % 2 = 1) THEN q + 1 ELSE q

\* a slip: the bottom wall taken without the gradient drop
YBottomAtX_Level(x, g, d) == Fl(-(d * Scale))

\* y_bottom_at_x = -x * gradient - diameter / 2, as a float over 2 * Scale * Scale
YBottomAtX(x, g, d) ==
  IF g.nan THEN NaN ELSE Fl(-(2 * x * g.v) - d * Scale)

\* baffle_top = y_bottom_at_x + baffle_h_m
BaffleTop(yb, h) == IF yb.nan THEN NaN ELSE Fl(yb.v + 2 * h * Scale)

\* the baffle lines of the longitudinal view, one per x-position
LongBaffles(xs, g, d, h) ==
  [i \in 1..Len(xs) |->
     [x |-> xs[i],
      y0 |-> YBottomAtX(xs[i], g, d),
      y1 |-> BaffleTop(YBottomAtX(xs[i], g, d), h)]]

\* a slip: every alternating baffle put on the same wall
PlanYCenter_OneWall(i, pl, sh, width, blen, lat) ==
  IF pl = "offset" /\ sh # "round" THEN width - blen ELSE 2 * lat

\* y_center of the baffle of 0-based index i in plan view, over 2 * Scale
PlanYCenter(i, pl, sh, width, blen, lat) ==
  IF pl = "offset" /\ sh # "round"
    THEN IF i % 2 = 0 THEN width - blen ELSE -width + blen
    ELSE 2 * lat

\* the baffle lines of the plan view, one per x-position (y over 2 * Scale)
PlanBaffles(xs, pl, sh, width, blen, lat) ==
  [j \in 1..Len(xs) |->
     [x |-> xs[j],
      y1 |-> PlanYCenter(j - 1, pl, sh, width, blen, lat) - blen,
      y2 |-> PlanYCenter(j - 1, pl, sh, width, blen, lat) + blen]]

\* the wall lines of the plan view: two for a pipe, four for a box
PlanWalls(sh) == IF sh = "round" THEN 2 ELSE 4

\* the "Baffle length ...mm" label, present when there is a baffle
LenLabel(xs, blen) == IF Len(xs) > 0 THEN <<RoundMm(blen)>> ELSE << >>

\* ---- state --------------------------------------------------------------
VARIABLES pc, payload, status,
          length_m, diameter_m, gradient, baffle_h_m, baffle_len_m, spacing_m,
          shape, placement, lateral_offset_m,
          x_positions, long_baffles, plan_baffles, plan_walls, len_label

norm == <<length_m, diameter_m, gradient, baffle_h_m, baffle_len_m, spacing_m,
          shape, placement, lateral_offset_m>>
drawing == <<long_baffles, plan_baffles, plan_walls, len_label>>
vars == <<pc, payload, status, norm, x_positions, drawing>>

NoPayload == [k \in {} |-> << >>]

MaxOpts == 1 + Len(Opts("installation"))

\* the selections of one option for each key of K
Choices(K) == { g \in [K -> 1..MaxOpts] : \A k \in K : g[k] <= Len(Opts(k)) }

KeySets == { X \in SUBSET Keys : Cardinality(X) <= MaxKeys }

Init ==
  /\ pc = "idle"
  /\ payload = NoPayload
  /\ status = 0
  /\ length_m = Fl(0) /\ diameter_m = Fl(0) /\ gradient = Fl(0)
  /\ baffle_h_m = Fl(0) /\ baffle_len_m = Fl(0) /\ spacing_m = Fl(0)
  /\ shape = "none" /\ placement = "none" /\ lateral_offset_m = 0
  /\ x_positions = << >>
  /\ long_baffles = << >> /\ plan_baffles = << >> /\ plan_walls = 0
  /\ len_label = << >>

\* flexibaffle_drawings, lines 306-330: the body decoded to a mapping; a
\* body that does not decode leaves payload None, which line 332 treats as
\* it treats the empty mapping.
Receive ==
  /\ pc = "idle"
  /\ \E K \in KeySets : \E g \in Choices(K) : payload' = [k \in K |-> Opts(k)[g[k]]]
  /\ pc' = "received"
  /\ UNCHANGED <<status, norm, x_positions, drawing>>

\* lines 332-333: if not payload -> 400
RejectPayload ==
  /\ pc = "received"
  /\ DOMAIN payload = {}
  /\ status' = 400
  /\ pc' = "done"
  /\ UNCHANGED <<payload, norm, x_positions, drawing>>

\* generate_drawing lines 18-73 with every float() succeeding
ParseInputs ==
  /\ pc = "received"
  /\ DOMAIN payload # {}
  /\ ParseOk(payload)
  /\ diameter_m' = ParsedDiameter(payload)
  /\ gradient' = ParsedGradient(payload)
  /\ shape' = ShapeOf(payload)
  /\ placement' = PlacementOf(Installation(payload))
  /\ lateral_offset_m' = LateralOffset(PlacementOf(Installation(payload)), ShapeOf(payload))
  /\ length_m' = ClampLength(ParsedLength(payload))
  /\ spacing_m' = ClampSpacing(ParsedSpacing(payload))
  /\ baffle_h_m' = ClampBaffleH(ParsedBaffleH(payload))
  /\ baffle_len_m' = ClampBaffleLen(ParsedBaffleLen(payload))
  /\ pc' = "parsed"
  /\ UNCHANGED <<payload, status, x_positions, drawing>>

\* a float() of lines 20-38 raises ValueError; lines 358-362 answer 500
ParseError ==
  /\ pc = "received"
  /\ DOMAIN payload # {}
  /\ ~ParseOk(payload)
  /\ status' = 500
  /\ pc' = "done"
  /\ UNCHANGED <<payload, norm, x_positions, drawing>>

\* lines 75-77
Layout ==
  /\ pc = "parsed"
  /\ x_positions' = XPositions(length_m.v, spacing_m.v)
  /\ pc' = "laid_out"
  /\ UNCHANGED <<payload, status, norm, drawing>>

\* lines 79-287 raising: the title's int(round(diameter_m*1000)) raises on a
\* NaN diameter (lines 83, 85); with a NaN gradient the axis limits of line
\* 177 are NaN, which the plotting library may reject, so that both this
\* action and Draw are enabled.  Nothing is saved.
DrawError ==
  /\ pc = "laid_out"
  /\ diameter_m.nan \/ gradient.nan
  /\ status' = 500
  /\ pc' = "done"
  /\ UNCHANGED <<payload, norm, x_positions, drawing>>

\* lines 79-287: both views drawn and the figure saved
Draw ==
  /\ pc = "laid_out"
  /\ ~diameter_m.nan
  /\ long_baffles' = LongBaffles(x_positions, gradient, diameter_m.v, baffle_h_m.v)
  /\ plan_baffles' = PlanBaffles(x_positions, placement, shape, diameter_m.v,
                                 baffle_len_m.v, lateral_offset_m)
  /\ plan_walls' = PlanWalls(shape)
  /\ len_label' = LenLabel(x_positions, baffle_len_m.v)
  /\ pc' = "drawn"
  /\ UNCHANGED <<payload, status, norm, x_positions>>

\* lines 344-356: the success response
Respond ==
  /\ pc = "drawn"
  /\ status' = 200
  /\ pc' = "done"
  /\ UNCHANGED <<payload, norm, x_positions, drawing>>

Next ==
  \/ Receive
  \/ RejectPayload
  \/ ParseInputs
  \/ ParseError
  \/ Layout
  \/ DrawError
  \/ Draw
  \/ Respond

Spec == Init /\ [][Next]_vars

\* ======================= properties =====================================
Geometry == {"laid_out", "drawn"}
AfterParse == {"parsed", "laid_out", "drawn"}
Drawn == pc = "drawn" \/ (pc = "done" /\ status = 200)
NoGeometry ==
  /\ x_positions = << >>
  /\ long_baffles = << >> /\ plan_baffles = << >> /\ plan_walls = 0

\* the raw diameter, unit suffix stripped, in millimetres * Scale
RawDiameter(d) == Float(DiameterText(d)).val

\* C1: a request whose raw diameter (unit stripped, in mm, before any clamp)
\* is <= 599 gets only the 'diameter too small' message: no baffle
\* x-position is computed and no geometry primitive is emitted; a raw
\* diameter > 599 takes the normal geometry path.
C1_SmallCulvertFallback ==
  (DOMAIN payload # {} /\ ParseOk(payload) /\ ~RawDiameter(payload).nan) =>
     /\ RawDiameter(payload).v <= 599 * Scale => NoGeometry /\ status # 500
     /\ (RawDiameter(payload).v > 599 * Scale /\ Drawn) => plan_walls > 0

\* C2: the core is total over field values: a field that fails numeric
\* conversion is replaced by its documented default (length 10 m, diameter
\* 1200 mm, baffleHeight 150 mm, baffleLength 600 mm, spacing 800 mm), the
\* run reaches Done through one of the two branches and the endpoint never
\* answers with an error because of a malformed field value.
C2_TotalOverFieldValues ==
  (DOMAIN payload # {} /\ Float(GradientText(payload)).ok) =>
     /\ (~ParseOk(payload) /\ pc = "done") => status = 200
     /\ (pc \in AfterParse /\ ~Float(LengthText(payload)).ok) => length_m = Fl(10 * Scale)
     /\ (pc \in AfterParse /\ ~Float(DiameterText(payload)).ok) =>
           diameter_m = Fl((1200 * Scale) \div 1000)
     /\ (pc \in AfterParse /\ ~Float(BaffleHText(payload)).ok) =>
           baffle_h_m = Fl((150 * Scale) \div 1000)
     /\ (pc \in AfterParse /\ ~Float(BaffleLenText(payload)).ok) =>
           baffle_len_m = Fl((600 * Scale) \div 1000)
     /\ (pc \in AfterParse /\ ~Float(SpacingText(payload)).ok) =>
           spacing_m = Fl((800 * Scale) \div 1000)

\* the gradient the priority rules give for a raw gradient text
RuleGradient(raw) ==
  LET low == Lower(raw)
      gt == { i \in 1..Len(low) : low[i].lex = "greater than " /\ i < Len(low)
                                    /\ low[i + 1].lex = "num" }
      rest == Replace(raw, "%")
  IN  IF Contains(low, "nan") THEN Fl(0)
      ELSE IF gt # {} THEN Fl((low[(CHOOSE i \in gt : TRUE) + 1].t * (Scale \div 10)) \div 100)
      ELSE IF Float(rest).ok /\ ~Float(rest).val.nan THEN Fl(Float(rest).val.v \div 100)
      ELSE Fl(0)

OtherFieldsOk(d) ==
  /\ Float(LengthText(d)).ok /\ Float(DiameterText(d)).ok
  /\ Float(BaffleHText(d)).ok /\ Float(BaffleLenText(d)).ok
  /\ Float(SpacingText(d)).ok

\* C3: gradient parsing is total and follows the priority rules ('nan' -> 0,
\* 'greater than N' -> N/100, numeric V after removing '%' -> V/100, anything
\* else -> 0); it never raises and never yields NaN.
C3_GradientParsing ==
  (DOMAIN payload # {} /\ OtherFieldsOk(payload)) =>
     /\ pc \in AfterParse =>
          gradient = RuleGradient(Get(payload, "gradient", <<Num(0), W("%")>>))
     /\ (pc = "done" /\ ~Float(DiameterText(payload)).val.nan) => status = 200

\* C4: the baffle x-positions are exactly floor(lengthM / spacingM) entries,
\* the i-th equal to i * spacingM, strictly increasing, > 0 and <= lengthM,
\* empty when lengthM < spacingM; 20 m at 800 mm gives 25 baffles up to 20.0 m.
C4_BaffleLayout ==
  pc \in Geometry =>
     /\ Len(x_positions) = length_m.v \div spacing_m.v
     /\ \A i \in 1..Len(x_positions) :
          /\ x_positions[i] = i * spacing_m.v
          /\ x_positions[i] > 0 /\ x_positions[i] <= length_m.v
          /\ i > 1 => x_positions[i - 1] < x_positions[i]
     /\ length_m.v < spacing_m.v => x_positions = << >>
     /\ (length_m.v = 20 * Scale /\ spacing_m.v = (800 * Scale) \div 1000) =>
          /\ Len(x_positions) = 25
          /\ x_positions[25] = 20 * Scale

\* C5: the placement is Offset exactly when the lower-cased installation text
\* contains 'offset', 'alternating', 'meander' or '20% shorter', and Centered
\* for every other text; no installation text causes an error.
C5_PlacementClassification ==
  pc \in AfterParse =>
     /\ placement \in {"offset", "centered"}
     /\ placement = "offset" <=>
          \E w \in {"offset", "alternating", "meander", "20% shorter"} :
             Contains(Installation(payload), w)

\* C6: for a box with centered placement the baffle length of every plan-view
\* baffle segment and of the baffle-length label is diameterM, whatever
\* baffleLength the input gave.
C6_BoxCenteredOverride ==
  (Drawn /\ shape = "box" /\ placement = "centered") =>
     /\ \A j \in 1..Len(plan_baffles) :
          plan_baffles[j].y2 - plan_baffles[j].y1 = 2 * diameter_m.v
     /\ Len(x_positions) > 0 => len_label = <<RoundMm(diameter_m.v)>>

\* C7: in every run that reaches geometry computation lengthM >= 0.5,
\* spacingM >= 0.05, baffleHeightM >= 0, baffleLengthM >= 0 and diameterM > 0;
\* a value below its floor is raised to the floor and a value at or above it
\* is unchanged.
C7_NormalizedBounds ==
  pc \in Geometry =>
     /\ ~length_m.nan /\ length_m.v >= Scale \div 2
     /\ ~spacing_m.nan /\ spacing_m.v >= Scale \div 20
     /\ ~baffle_h_m.nan /\ baffle_h_m.v >= 0
     /\ ~baffle_len_m.nan /\ baffle_len_m.v >= 0
     /\ ~diameter_m.nan => diameter_m.v > 0
     /\ LET l == ParsedLength(payload)
            s == ParsedSpacing(payload)
            h == ParsedBaffleH(payload)
            b == ParsedBaffleLen(payload)
        IN  /\ (~l.nan) => length_m.v = IF l.v < Scale \div 2 THEN Scale \div 2 ELSE l.v
            /\ (~s.nan) => spacing_m.v = IF s.v < Scale \div 20 THEN Scale \div 20 ELSE s.v
            /\ (~h.nan) => baffle_h_m.v = IF h.v < 0 THEN 0 ELSE h.v
            /\ (~b.nan) => baffle_len_m.v = IF b.v < 0 THEN 0 ELSE b.v

\* C8: lateralOffsetM is 0.05 exactly when the shape is Round and the
\* placement is Offset and 0 otherwise; for Round the baffle length is the
\* (clamped) parsed value in both placements and every plan-view baffle
\* segment spans lateralOffsetM -/+ baffleLengthM / 2.
C8_LateralOffsetRule ==
  pc \in AfterParse \/ Drawn =>
     /\ (shape = "round" /\ placement = "offset") => lateral_offset_m = Scale \div 20
     /\ ~(shape = "round" /\ placement = "offset") => lateral_offset_m = 0
     /\ shape = "round" => baffle_len_m = ClampBaffleLen(ParsedBaffleLen(payload))
     /\ (Drawn /\ shape = "round") =>
          /\ Len(plan_baffles) = Len(x_positions)
          /\ \A j \in 1..Len(plan_baffles) :
               /\ plan_baffles[j].y1 = 2 * lateral_offset_m - baffle_len_m.v
               /\ plan_baffles[j].y2 = 2 * lateral_offset_m + baffle_len_m.v

C8_Witness ==
  /\ pc = "drawn" /\ shape = "round" /\ placement = "offset"
  /\ Len(plan_baffles) >= 2 /\ baffle_len_m.v > 0
  /\ "baffleLength" \in DOMAIN payload

C10_CrossViewConsistency ==
  Drawn =>
     /\ Len(long_baffles) = Len(x_positions)
     /\ Len(plan_baffles) = Len(x_positions)
     /\ \A i \in 1..Len(x_positions) :
          /\ long_baffles[i].x = x_positions[i]
          /\ plan_baffles[i].x = long_baffles[i].x
          /\ IF gradient.nan
               THEN long_baffles[i].y0.nan /\ long_baffles[i].y1.nan
               ELSE /\ long_baffles[i].y0 =
                         Fl(-(2 * x_positions[i] * gradient.v) - diameter_m.v * Scale)
                    /\ long_baffles[i].y1 =
                         Fl(long_baffles[i].y0.v + 2 * baffle_h_m.v * Scale)

C10_Witness ==
  /\ pc = "drawn" /\ shape = "box" /\ placement = "offset"
  /\ Len(long_baffles) >= 2 /\ Len(plan_baffles) >= 2
  /\ ~gradient.nan /\ gradient.v > 0 /\ baffle_h_m.v > 0
====
